---------------------------- MODULE Spec2Model ----------------------------
(***************************************************************************)
(* A model of HashMap<K,V> (src/hashmap.h): a separate-chaining hash table *)
(* whose buckets are vectors of pointers to heap-allocated entries.        *)
(*                                                                         *)
(* K and V are instantiated with int: std::hash<int> is the identity and   *)
(* V{} is 0.  max_load_factor is a float in the source; it is modelled as  *)
(* an exact rational <<numerator, denominator>>, the values used being     *)
(* exactly representable in binary floating point.                         *)
(*                                                                         *)
(* Tables are identified by small integers (the objects of a program that  *)
(* declares HashMap a, b).  Entries live on a heap of addresses: a bucket  *)
(* holds addresses, new takes the lowest free address, delete frees it.    *)
(* The source never compares, orders or prints an address, so a state is   *)
(* kept up to a renaming of the addresses: see Store.                      *)
(*                                                                         *)
(* Every member function is an operator from the table, the heap and the   *)
(* arguments to the table and the heap after the call and the value        *)
(* returned; the actions apply these operators to the tables of the state. *)
(***************************************************************************)
EXTENDS Integers, Sequences, FiniteSets, TLC

\* ------------------------------------------------------------------ bounds

\* Keys are 1..MaxKey.
MaxKey == 4

\* Values are 0..MaxValue; 0 is V{}.
MaxValue == 1

\* No operation is taken that would leave a table with more buckets.
MaxBuckets == 8

Keys == 1..MaxKey

Values == 0..MaxValue

\* The tables of the program: HashMap a, b.
TableIds == {1, 2}

\* One address per entry that can be live at once.
Addrs == 1..(2 * MaxKey)

\* Capacities the constructor is called with.
Caps == {1, 2, 4}

\* Load factors given to the constructor and to set_max_load_factor:
\* 0.25, 0.75 (the default) and 3.0.
Mlfs == {<<1, 4>>, <<3, 4>>, <<3, 1>>}

\* Arguments of rehash.
RehashCounts == 0..MaxBuckets

\* Arguments of set_max_load_factor that are not positive: 0.0 and -1.0.
NonPositiveMlfs == {<<0, 1>>, <<-1, 1>>}

\* ------------------------------------------------------------------- state

VARIABLES
    maps,       \* table id -> the HashMap object's fields, for each live object
    heap,       \* address -> Entry, or Free
    ub,         \* TRUE once a call has executed undefined behaviour
    abstract,   \* table id -> the abstract map the same calls drive: a set of
                \* <<key, value>> pairs with no key twice
    thrown      \* the exception the last call ended with, NoException if it
                \* returned

vars == <<maps, heap, ub, abstract, thrown>>

\* The last call returned.
NoException == "none"

\* std::invalid_argument, thrown by the constructors
invalid_argument == "invalid_argument"

\* std::out_of_range, thrown by at
out_of_range == "out_of_range"

\* HashMap(): bucket_count(32), buckets(32)
DefaultCapacity == 32

\* float max_load_factor = 0.75f
DefaultMaxLoadFactor == <<3, 4>>

\* A heap cell that holds no Entry.
Free == [key |-> 0, value |-> 0]

\* struct Entry { K key; V value; }
Entry(key, value) == [key |-> key, value |-> value]

nullptr == 0

Void == <<"void">>

\* Iterator(m, b, e)
Iterator(m, b, e) == <<"iter", m, b, e>>

\* ----------------------------------------------------------------- helpers

Max(a, b) == IF a >= b THEN a ELSE b

\* std::ceil(a / b) for a >= 0, b > 0; 0 / b is zero for b < 0 as well
CeilDiv(a, b) == IF a = 0 THEN 0 ELSE (a + b - 1) \div b

\* n empty buckets: std::vector<std::vector<Entry*>>(n)
RECURSIVE EmptyBuckets(_)
EmptyBuckets(n) == IF n = 0 THEN <<>> ELSE Append(EmptyBuckets(n - 1), <<>>)

\* new Entry{...}: the lowest free address
Alloc(h) == CHOOSE a \in Addrs : h[a] = Free /\ \A b \in Addrs : h[b] = Free => a <= b

\* std::hash<int>: the identity
Hash(key) == key

\* hash_func: the bucket index of a key, for bucket_count > 0
hash_func(t, key) == Hash(key) % t.bucket_count

\* The position (1-based) of the first entry of bucket b whose key is key, 0 if none.
RECURSIVE PosFrom(_, _, _, _)
PosFrom(b, h, key, i) ==
    IF i > Len(b) THEN 0
    ELSE IF h[b[i]].key = key THEN i
    ELSE PosFrom(b, h, key, i + 1)

\* find_entry: the address of the entry of key, nullptr if none
find_entry(t, h, key) ==
    LET b == t.buckets[hash_func(t, key) + 1]
        i == PosFrom(b, h, key, 1)
    IN  IF i = 0 THEN nullptr ELSE b[i]

\* The growth check taking a load factor equal to the maximum as exceeding it.
load_factor_reaches(t) ==
    IF t.bucket_count = 0 THEN t.entry_count > 0
    ELSE t.entry_count * t.max_load_factor[2] >= t.max_load_factor[1] * t.bucket_count

\* load_factor() > max_load_factor.  With bucket_count = 0 the quotient is
\* NaN (0/0: no comparison holds) or +infinity (n/0).
load_factor_exceeds(t) ==
    IF t.bucket_count = 0 THEN t.entry_count > 0
    ELSE t.entry_count * t.max_load_factor[2] > t.max_load_factor[1] * t.bucket_count

\* The entries of all buckets, bucket by bucket.
RECURSIVE Flatten(_)
Flatten(bs) == IF bs = <<>> THEN <<>> ELSE Head(bs) \o Flatten(Tail(bs))

\* The addresses held by a table's buckets.
EntriesOf(t) == {Flatten(t.buckets)[i] : i \in 1..Len(Flatten(t.buckets))}

\* The elements of a sequence.
Range(q) == {q[i] : i \in 1..Len(q)}

\* delete e for every e of a set of addresses
FreeAll(h, es) == [a \in Addrs |-> IF a \in es THEN Free ELSE h[a]]

\* rehash's loop assigning the entry to its bucket instead of pushing it.
RECURSIVE refile_assign(_, _, _, _)
refile_assign(es, h, n, acc) ==
    IF es = <<>> THEN acc
    ELSE refile_assign(Tail(es), h, n,
                       [acc EXCEPT ![(Hash(h[Head(es)].key) % n) + 1] = <<Head(es)>>])

\* rehash's loop: push each entry onto the bucket its key hashes to among n.
RECURSIVE Refile(_, _, _, _)
Refile(es, h, n, acc) ==
    IF es = <<>> THEN acc
    ELSE Refile(Tail(es), h, n,
                [acc EXCEPT ![(Hash(h[Head(es)].key) % n) + 1] = Append(@, Head(es))])

\* rehash converts ceil(entry_count / max_load_factor) to size_t.  The
\* conversion is undefined when the quotient is NaN or infinite
\* (max_load_factor = 0) or negative (max_load_factor < 0 with entries); with
\* max_load_factor > 0, and for -0.0, it is defined.
min_required_undefined(t) ==
    \/ t.max_load_factor[1] = 0
    \/ t.max_load_factor[1] < 0 /\ t.entry_count > 0

\* The growth check calls rehash, and rehash's conversion is undefined.
grow_undefined(t) == load_factor_exceeds(t) /\ min_required_undefined(t)

\* rehash(count) settling on the load-factor floor whatever count is.
floor_only(t, count) ==
    CeilDiv(t.entry_count * t.max_load_factor[2], t.max_load_factor[1])

\* The bucket count rehash(count) settles on, where the conversion of
\* min_required is defined.
new_bucket_count(t, count) ==
    LET min_required == CeilDiv(t.entry_count * t.max_load_factor[2], t.max_load_factor[1])
    IN  Max(count, min_required)

\* rehash that, when growing, leaves every entry in the bucket it was in.
rehash_in_place(t, h, count) ==
    LET n == new_bucket_count(t, count)
    IN  IF n = t.bucket_count THEN t
        ELSE IF n > t.bucket_count
        THEN [t EXCEPT !.buckets = @ \o EmptyBuckets(n - t.bucket_count),
                       !.bucket_count = n]
        ELSE [t EXCEPT !.buckets = Refile(Flatten(t.buckets), h, n, EmptyBuckets(n)),
                       !.bucket_count = n]

\* rehash(count), where the conversion of min_required is defined: the table
\* after the call
rehash(t, h, count) ==
    LET n == new_bucket_count(t, count)
    IN  IF n = t.bucket_count THEN t
        ELSE [t EXCEPT !.buckets = Refile(Flatten(t.buckets), h, n, EmptyBuckets(n)),
                       !.bucket_count = n]

\* The growth check adding one bucket instead of doubling.
grow_by_one(t, h) ==
    IF load_factor_exceeds(t) THEN rehash(t, h, t.bucket_count + 1) ELSE t

\* The growth check that ends insert, operator[] and set_max_load_factor.
grow_if_needed(t, h) ==
    IF load_factor_exceeds(t) THEN rehash(t, h, t.bucket_count * 2) ELSE t

\* pop_back without the last entry taking the place of entry i.
pop_only(b, i) == SubSeq(b, 1, Len(b) - 1)

\* The delete of erase closing the gap: the entries after entry i move down.
shift_remove(b, i) == SubSeq(b, 1, i - 1) \o SubSeq(b, i + 1, Len(b))

\* The O(1) delete of erase: the last entry takes the place of entry i (1-based).
swap_remove(b, i) ==
    LET b1 == IF i # Len(b) THEN [b EXCEPT ![i] = b[Len(b)]] ELSE b
    IN  SubSeq(b1, 1, Len(b1) - 1)

\* HashMap(cap, mlf) for cap > 0, mlf > 0
Construct(cap, mlf) ==
    [buckets |-> EmptyBuckets(cap), bucket_count |-> cap, entry_count |-> 0,
     max_load_factor |-> mlf]

\* What a constructor ends with: a table, or an exception and no table.
Constructed(t) == [thrown |-> NoException, t |-> t]

Failed(e) == [thrown |-> e]

\* HashMap()
HashMap_default == Constructed(Construct(DefaultCapacity, DefaultMaxLoadFactor))

\* HashMap(size_t cap)
HashMap_cap(cap) ==
    IF cap = 0 THEN Failed(invalid_argument)
    ELSE Constructed(Construct(cap, DefaultMaxLoadFactor))

\* HashMap(cap, mlf) without the check of mlf.
HashMap_unchecked_mlf(cap, mlf) ==
    IF cap = 0 THEN Failed(invalid_argument)
    ELSE Constructed(Construct(cap, mlf))

\* HashMap(size_t cap, float mlf)
HashMap_cap_mlf(cap, mlf) ==
    IF cap = 0 THEN Failed(invalid_argument)
    ELSE IF mlf[1] <= 0 THEN Failed(invalid_argument)
    ELSE Constructed(Construct(cap, mlf))

\* ----------------------------------------------------------------- lookups

\* contains(key), for bucket_count > 0
contains(t, h, key) == find_entry(t, h, key) # nullptr

\* at(key), for bucket_count > 0: the value, or the out_of_range exception
at(t, h, key) ==
    LET e == find_entry(t, h, key)
    IN  IF e = nullptr THEN <<"out_of_range">> ELSE <<"value", h[e].value>>

\* size()
size(t) == t.entry_count

\* end() of table m
end(m, t) == Iterator(m, t.bucket_count, 0)

\* count(key), for bucket_count > 0 (count names the argument of rehash here)
count_of(t, h, key) == IF find_entry(t, h, key) # nullptr THEN 1 ELSE 0

\* find's loop over bucket b from position i (0-based): the position of the
\* first entry whose key is key, b.size() if there is none.
RECURSIVE find_from(_, _, _, _)
find_from(b, h, key, i) ==
    IF i >= Len(b) THEN Len(b)
    ELSE IF h[b[i + 1]].key = key THEN i
    ELSE find_from(b, h, key, i + 1)

\* find returning the position after the entry's.
find_past(m, t, h, key) ==
    LET index_ == hash_func(t, key)
        b      == t.buckets[index_ + 1]
        i      == find_from(b, h, key, 0)
    IN  IF i < Len(b) THEN Iterator(m, index_, i + 1) ELSE end(m, t)

\* find(key) on table m, for bucket_count > 0
find(m, t, h, key) ==
    LET index_ == hash_func(t, key)
        b      == t.buckets[index_ + 1]
        i      == find_from(b, h, key, 0)
    IN  IF i < Len(b) THEN Iterator(m, index_, i) ELSE end(m, t)

\* The first bucket index from b on whose bucket is not empty, bucket_count
\* if there is none: the loops of begin, operator++ and erase(Iterator).
RECURSIVE skip_empty(_, _)
skip_empty(t, b) ==
    IF b < t.bucket_count /\ t.buckets[b + 1] = <<>> THEN skip_empty(t, b + 1) ELSE b

\* begin() without the skip over the empty buckets.
begin_unskipped(m, t) ==
    IF 0 < t.bucket_count THEN Iterator(m, 0, 0) ELSE end(m, t)

\* begin() of table m
begin(m, t) ==
    LET i == skip_empty(t, 0)
    IN  IF i < t.bucket_count THEN Iterator(m, i, 0) ELSE end(m, t)

\* Iterator::operator* without the check of the position against the size of
\* the bucket: past the bucket's entries it returns what is not an entry.
deref_unchecked_position(t, it) ==
    IF it[3] >= t.bucket_count THEN <<out_of_range>>
    ELSE IF it[4] >= Len(t.buckets[it[3] + 1]) THEN <<"entry", nullptr>>
    ELSE <<"entry", t.buckets[it[3] + 1][it[4] + 1]>>

\* Iterator::operator* on an iterator of table t: the address of the entry,
\* or the out_of_range exception
deref(t, it) ==
    IF it[3] >= t.bucket_count THEN <<out_of_range>>
    ELSE IF it[4] >= Len(t.buckets[it[3] + 1]) THEN <<out_of_range>>
    ELSE <<"entry", t.buckets[it[3] + 1][it[4] + 1]>>

\* Iterator(): no table, bucket 0, position 0
DefaultIterator == Iterator(nullptr, 0, 0)

\* Iterator::operator* and Const_Iterator::operator* with the tables ms: the
\* check of the iterator's table pointer comes first, then those of deref.
operator_star(ms, it) ==
    IF it[2] = nullptr THEN <<out_of_range>>
    ELSE deref(ms[it[2]], it)

\* operator++ moving to the next bucket without skipping the empty ones.
next_bucket(t, it) ==
    IF it[3] >= t.bucket_count THEN it
    ELSE IF it[4] + 1 < Len(t.buckets[it[3] + 1]) THEN Iterator(it[2], it[3], it[4] + 1)
    ELSE Iterator(it[2], it[3] + 1, 0)

\* Iterator::operator++ on an iterator of table t
inc(t, it) ==
    IF it[3] >= t.bucket_count THEN it
    ELSE IF it[4] + 1 < Len(t.buckets[it[3] + 1]) THEN Iterator(it[2], it[3], it[4] + 1)
    ELSE Iterator(it[2], skip_empty(t, it[3] + 1), 0)

\* begin(n) of table m: the iterator, or the out_of_range exception
begin_n(m, t, n) ==
    IF n >= t.bucket_count THEN <<out_of_range>>
    ELSE IF t.buckets[n + 1] = <<>> THEN end(m, t)
    ELSE Iterator(m, n, 0)

\* end(n) of table m: the iterator, or the out_of_range exception
end_n(m, t, n) ==
    IF n >= t.bucket_count THEN <<out_of_range>>
    ELSE Iterator(m, n, Len(t.buckets[n + 1]))

\* bucket_size(n) taking the last bucket's index as out of range as well.
bucket_size_short(t, n) ==
    IF n + 1 >= t.bucket_count THEN <<out_of_range>>
    ELSE <<"size", Len(t.buckets[n + 1])>>

\* bucket_size(n): the size, or the out_of_range exception
bucket_size(t, n) ==
    IF n >= t.bucket_count THEN <<out_of_range>>
    ELSE <<"size", Len(t.buckets[n + 1])>>

\* ---------------------------------------------------------------- mutators
\* Each gives the table (t) and the heap (h) after the call and what the call
\* returned (ret).  Those that call hash_func are defined for bucket_count > 0.

\* insert and operator[] of an absent key reach a growth check whose rehash is
\* undefined.
new_entry_undefined(t, h, key) ==
    /\ find_entry(t, h, key) = nullptr
    /\ grow_undefined([t EXCEPT !.entry_count = @ + 1])

\* The tail of insert and operator[] putting the new entry at the front of
\* the key's bucket instead of at its back.
insert_new_front(t, h, key, value) ==
    LET a  == Alloc(h)
        h1 == [h EXCEPT ![a] = Entry(key, value)]
        t1 == [t EXCEPT !.buckets[hash_func(t, key) + 1] = <<a>> \o @,
                        !.entry_count = @ + 1]
    IN  [t |-> grow_if_needed(t1, h1), h |-> h1, ret |-> <<"ref", a>>]

\* The tail of insert and operator[] for an absent key: a new entry is pushed
\* onto the key's bucket, entry_count is incremented, and the table grows if
\* the load factor now exceeds the maximum.
insert_new(t, h, key, value) ==
    LET a  == Alloc(h)
        h1 == [h EXCEPT ![a] = Entry(key, value)]
        t1 == [t EXCEPT !.buckets[hash_func(t, key) + 1] = Append(@, a),
                        !.entry_count = @ + 1]
    IN  [t |-> grow_if_needed(t1, h1), h |-> h1, ret |-> <<"ref", a>>]

\* insert without the lookup: a new entry whether or not the key is present.
insert_dup(t, h, key, value) ==
    [insert_new(t, h, key, value) EXCEPT !.ret = Void]

\* insert that leaves the value of a present key as it is.
insert_no_overwrite(t, h, key, value) ==
    IF find_entry(t, h, key) # nullptr
    THEN [t |-> t, h |-> h, ret |-> Void]
    ELSE [insert_new(t, h, key, value) EXCEPT !.ret = Void]

\* insert(key, value)
insert(t, h, key, value) ==
    LET e == find_entry(t, h, key)
    IN  IF e # nullptr
        THEN [t |-> t, h |-> [h EXCEPT ![e].value = value], ret |-> Void]
        ELSE [insert_new(t, h, key, value) EXCEPT !.ret = Void]

\* operator[] without the lookup.
index_dup(t, h, key) == insert_new(t, h, key, 0)

\* operator[] without the growth check after the new entry.
index_no_growth(t, h, key) ==
    LET e == find_entry(t, h, key)
        a == Alloc(h)
    IN  IF e # nullptr
        THEN [t |-> t, h |-> h, ret |-> <<"ref", e>>]
        ELSE [t   |-> [t EXCEPT !.buckets[hash_func(t, key) + 1] = Append(@, a),
                                !.entry_count = @ + 1],
              h   |-> [h EXCEPT ![a] = Entry(key, 0)],
              ret |-> <<"ref", a>>]

\* operator[](key): returns a reference to the value of the key's entry
index(t, h, key) ==
    LET e == find_entry(t, h, key)
    IN  IF e # nullptr
        THEN [t |-> t, h |-> h, ret |-> <<"ref", e>>]
        ELSE insert_new(t, h, key, 0)

\* erase(key): returns 1 if an entry was erased, 0 otherwise
erase_key(t, h, key) ==
    LET index_ == hash_func(t, key)
        b      == t.buckets[index_ + 1]
        i      == PosFrom(b, h, key, 1)
    IN  IF i # 0
        THEN [t   |-> [t EXCEPT !.buckets[index_ + 1] = swap_remove(b, i),
                                !.entry_count = @ - 1],
              h   |-> [h EXCEPT ![b[i]] = Free],
              ret |-> <<"size", 1>>]
        ELSE [t |-> t, h |-> h, ret |-> <<"size", 0>>]

\* The iterator erase(Iterator) returns without the look at the rest of the
\* erased entry's bucket.
next_in_later_bucket(m, bs, bucket_count, bucket_idx, i) ==
    LET later == {n \in (bucket_idx + 1)..(bucket_count - 1) : bs[n + 1] # <<>>}
    IN  IF later # {}
        THEN Iterator(m, CHOOSE n \in later : \A n2 \in later : n <= n2, 0)
        ELSE Iterator(m, bucket_count, 0)

\* The iterator erase(Iterator) returns taking the position after the erased
\* entry's, as if no entry had been moved into its place.
next_past_erased(m, bs, bucket_count, bucket_idx, i) ==
    IF i + 1 < Len(bs[bucket_idx + 1]) THEN Iterator(m, bucket_idx, i + 1)
    ELSE LET later == {n \in (bucket_idx + 1)..(bucket_count - 1) : bs[n + 1] # <<>>}
         IN  IF later # {}
             THEN Iterator(m, CHOOSE n \in later : \A n2 \in later : n <= n2, 0)
             ELSE Iterator(m, bucket_count, 0)

\* The iterator erase(Iterator) returns after removing entry i (0-based) of
\* bucket bucket_idx, bs being the buckets after the removal.
next_after_erase(m, bs, bucket_count, bucket_idx, i) ==
    IF i < Len(bs[bucket_idx + 1]) THEN Iterator(m, bucket_idx, i)
    ELSE LET later == {n \in (bucket_idx + 1)..(bucket_count - 1) : bs[n + 1] # <<>>}
         IN  IF later # {}
             THEN Iterator(m, CHOOSE n \in later : \A n2 \in later : n <= n2, 0)
             ELSE Iterator(m, bucket_count, 0)

\* erase(Iterator)'s validation without the check of the iterator's table.
designates_any_table(m, t, pos) ==
    /\ pos[3] < t.bucket_count
    /\ pos[4] < Len(t.buckets[pos[3] + 1])

\* The iterator designates an entry of table m: erase(Iterator)'s validation.
designates(m, t, pos) ==
    /\ pos[2] = m
    /\ pos[3] < t.bucket_count
    /\ pos[4] < Len(t.buckets[pos[3] + 1])

\* erase(pos) without the decrement of entry_count.
erase_it_keeps_count(m, t, h, pos) ==
    IF ~designates(m, t, pos)
    THEN [t |-> t, h |-> h, ret |-> end(m, t)]
    ELSE LET b  == t.buckets[pos[3] + 1]
             bs == [t.buckets EXCEPT ![pos[3] + 1] = swap_remove(b, pos[4] + 1)]
         IN  [t   |-> [t EXCEPT !.buckets = bs],
              h   |-> [h EXCEPT ![b[pos[4] + 1]] = Free],
              ret |-> next_after_erase(m, bs, t.bucket_count, pos[3], pos[4])]

\* erase(pos) on table m
erase_it(m, t, h, pos) ==
    IF ~designates(m, t, pos)
    THEN [t |-> t, h |-> h, ret |-> end(m, t)]
    ELSE LET b  == t.buckets[pos[3] + 1]
             bs == [t.buckets EXCEPT ![pos[3] + 1] = swap_remove(b, pos[4] + 1)]
         IN  [t   |-> [t EXCEPT !.buckets = bs, !.entry_count = @ - 1],
              h   |-> [h EXCEPT ![b[pos[4] + 1]] = Free],
              ret |-> next_after_erase(m, bs, t.bucket_count, pos[3], pos[4])]

\* clear(): every entry deleted, every bucket emptied, entry_count reset
clear(t, h) ==
    [t   |-> [t EXCEPT !.buckets = EmptyBuckets(Len(t.buckets)), !.entry_count = 0],
     h   |-> FreeAll(h, EntriesOf(t)),
     ret |-> Void]

\* set_max_load_factor(ml), any ml, where the growth check is defined: the
\* table after the call
set_max_load_factor(t, h, ml) ==
    grow_if_needed([t EXCEPT !.max_load_factor = ml], h)

\* The copy loop pushing the source's own entries instead of new ones.
copy_shallow(src, h, i, j, acc) == [buckets |-> src, h |-> h]

\* The copy loop of the copy constructor and of copy assignment: for each
\* bucket i of the source and each entry of it, a new Entry with the same key
\* and value is pushed onto bucket i of the destination.
RECURSIVE copy_entries(_, _, _, _, _)
copy_entries(src, h, i, j, acc) ==
    IF i > Len(src) THEN [buckets |-> acc, h |-> h]
    ELSE IF j > Len(src[i]) THEN copy_entries(src, h, i + 1, 1, acc)
    ELSE LET a == Alloc(h)
             e == h[src[i][j]]
         IN  copy_entries(src, [h EXCEPT ![a] = Entry(e.key, e.value)], i, j + 1,
                          [acc EXCEPT ![i] = Append(@, a)])

\* HashMap(const HashMap& other)
copy_construct(other, h) ==
    LET c == copy_entries(other.buckets, h, 1, 1, EmptyBuckets(other.bucket_count))
    IN  [t |-> [buckets |-> c.buckets, bucket_count |-> other.bucket_count,
                entry_count |-> other.entry_count,
                max_load_factor |-> DefaultMaxLoadFactor],
         h |-> c.h]

\* operator=(const HashMap& other), for this != &other
copy_assign(t, other, h) ==
    LET cl == clear(t, h)
        c  == copy_entries(other.buckets, cl.h, 1, 1, EmptyBuckets(other.bucket_count))
    IN  [t |-> [cl.t EXCEPT !.buckets = c.buckets,
                            !.bucket_count = other.bucket_count,
                            !.entry_count = other.entry_count],
         h |-> c.h]

\* A moved-from table whose entry_count was not reset.
moved_from_keeps_count(t) == [t EXCEPT !.buckets = <<>>, !.bucket_count = 0]

\* What a table is after its buckets were moved from: an empty vector, no
\* buckets, no entries.
moved_from(t) == [t EXCEPT !.buckets = <<>>, !.bucket_count = 0, !.entry_count = 0]

\* HashMap(HashMap&& other): the new table (t) and other after the call
move_construct(other) == [t |-> other, other |-> moved_from(other)]

\* Move assignment that leaves max_load_factor as the destination had it.
move_assign_keeps_mlf(t, other, h) ==
    [t     |-> [other EXCEPT !.max_load_factor = t.max_load_factor],
     other |-> moved_from(other),
     h     |-> clear(t, h).h]

\* operator=(HashMap&& other), for this != &other: this (t), other and the
\* heap after the call
move_assign(t, other, h) ==
    [t |-> other, other |-> moved_from(other), h |-> clear(t, h).h]

\* ------------------------------------------------------------------ Init

EmptyAbstract == {}

\* The abstract map without key.
Without(am, key) == {p \in am : p[1] # key}

\* The abstract map holds key.
Holds(am, key) == \E p \in am : p[1] = key

Init ==
    /\ \E cap \in Caps, mlf \in Mlfs : maps = (1 :> Construct(cap, mlf))
    /\ heap = [a \in Addrs |-> Free]
    /\ ub = FALSE
    /\ abstract = (1 :> EmptyAbstract)
    /\ thrown = NoException

\* ----------------------------------------------------------------- actions

\* A call that divides by bucket_count = 0 in hash_func: undefined behaviour.
Undefined ==
    /\ ub' = TRUE
    /\ UNCHANGED <<maps, heap, abstract, thrown>>

\* The call returns: no exception, no undefined behaviour.
Returns ==
    /\ ub' = ub
    /\ thrown' = NoException

\* The call ends with the exception e and has changed nothing.
Throws(e) ==
    /\ thrown' = e
    /\ UNCHANGED <<maps, heap, ub, abstract>>

\* The addresses in use, without repetition: those the tables hold, in the
\* order of the table ids, the buckets and the positions, then the live cells
\* no table holds.
RECURSIVE Distinct(_, _)
Distinct(es, seen) ==
    IF es = <<>> THEN <<>>
    ELSE IF Head(es) \in seen THEN Distinct(Tail(es), seen)
    ELSE <<Head(es)>> \o Distinct(Tail(es), seen \cup {Head(es)})

RECURSIVE Ascending(_)
Ascending(S) ==
    IF S = {} THEN <<>>
    ELSE LET a == CHOOSE x \in S : \A y \in S : x <= y
         IN  <<a>> \o Ascending(S \ {a})

RECURSIVE HeldBy(_, _)
HeldBy(ms, ids) ==
    IF ids = <<>> THEN <<>>
    ELSE Flatten(ms[Head(ids)].buckets) \o HeldBy(ms, Tail(ids))

InUse(ms, h) ==
    LET held == Distinct(HeldBy(ms, Ascending(DOMAIN ms)), {})
        rest == {a \in Addrs : h[a] # Free} \ {held[i] : i \in 1..Len(held)}
    IN  held \o Ascending(rest)

\* The tables ms with every address a replaced by rank[a].
Renamed(ms, rank) ==
    [m \in DOMAIN ms |->
        [ms[m] EXCEPT !.buckets =
            [i \in 1..Len(ms[m].buckets) |->
                [j \in 1..Len(ms[m].buckets[i]) |-> rank[ms[m].buckets[i][j]]]]]]

\* The tables become ms and the heap h, the addresses renamed so that the
\* i-th address of order, the addresses in use, is i.
StoreAs(ms, h, order) ==
    /\ maps' = Renamed(ms, [a \in Addrs |->
                              IF \E i \in 1..Len(order) : order[i] = a
                              THEN CHOOSE i \in 1..Len(order) : order[i] = a
                              ELSE a])
    /\ heap' = [a \in Addrs |-> IF a <= Len(order) THEN h[order[a]] ELSE Free]

Store(ms, h) == StoreAs(ms, h, InUse(ms, h))

\* Table m becomes r.t and the heap r.h, unless that takes more than
\* MaxBuckets buckets.
Becomes(m, r) ==
    /\ r.t.bucket_count <= MaxBuckets
    /\ Store([maps EXCEPT ![m] = r.t], r.h)
    /\ Returns

\* insert(key, value) on table m
Insert(m, key, value) ==
    /\ ~ub
    /\ m \in DOMAIN maps
    /\ IF maps[m].bucket_count = 0 \/ new_entry_undefined(maps[m], heap, key)
       THEN Undefined
       ELSE /\ Becomes(m, insert(maps[m], heap, key, value))
            /\ abstract' = [abstract EXCEPT ![m] = Without(@, key) \cup {<<key, value>>}]

\* operator[](key) on table m
IndexOp(m, key) ==
    /\ ~ub
    /\ m \in DOMAIN maps
    /\ IF maps[m].bucket_count = 0 \/ new_entry_undefined(maps[m], heap, key)
       THEN Undefined
       ELSE /\ Becomes(m, index(maps[m], heap, key))
            /\ abstract' = [abstract EXCEPT
                              ![m] = IF Holds(@, key) THEN @ ELSE @ \cup {<<key, 0>>}]

\* erase(key) on table m
EraseKey(m, key) ==
    /\ ~ub
    /\ m \in DOMAIN maps
    /\ IF maps[m].bucket_count = 0 THEN Undefined
       ELSE /\ Becomes(m, erase_key(maps[m], heap, key))
            /\ abstract' = [abstract EXCEPT ![m] = Without(@, key)]

\* erase(pos) on table m
EraseIt(m, pos) ==
    /\ ~ub
    /\ m \in DOMAIN maps
    /\ Becomes(m, erase_it(m, maps[m], heap, pos))
    /\ abstract' =
          IF designates(m, maps[m], pos)
          THEN [abstract EXCEPT
                  ![m] = Without(@, heap[maps[m].buckets[pos[3] + 1][pos[4] + 1]].key)]
          ELSE abstract

\* clear() on table m
Clear(m) ==
    /\ ~ub
    /\ m \in DOMAIN maps
    /\ Becomes(m, clear(maps[m], heap))
    /\ abstract' = [abstract EXCEPT ![m] = EmptyAbstract]

\* rehash(count) on table m
Rehash(m, count) ==
    /\ ~ub
    /\ m \in DOMAIN maps
    /\ IF min_required_undefined(maps[m]) THEN Undefined
       ELSE /\ Becomes(m, [t |-> rehash(maps[m], heap, count), h |-> heap])
            /\ UNCHANGED abstract

\* set_max_load_factor(ml) on table m
SetMaxLoadFactor(m, ml) ==
    /\ ~ub
    /\ m \in DOMAIN maps
    /\ IF grow_undefined([maps[m] EXCEPT !.max_load_factor = ml]) THEN Undefined
       ELSE /\ Becomes(m, [t |-> set_max_load_factor(maps[m], heap, ml), h |-> heap])
            /\ UNCHANGED abstract

\* A constructor call for table dst ending with r: the table exists
\* afterwards unless the constructor threw.
Constructs(dst, r) ==
    /\ ~ub
    /\ dst \notin DOMAIN maps
    /\ IF r.thrown # NoException THEN Throws(r.thrown)
       ELSE /\ Store(maps @@ (dst :> r.t), heap)
            /\ abstract' = abstract @@ (dst :> EmptyAbstract)
            /\ Returns

\* HashMap dst;
DefaultConstruct(dst) == Constructs(dst, HashMap_default)

\* HashMap dst(cap);
ConstructCap(dst, cap) == Constructs(dst, HashMap_cap(cap))

\* HashMap dst(cap, mlf);
ConstructOp(dst, cap, mlf) == Constructs(dst, HashMap_cap_mlf(cap, mlf))

\* at(key) that default-inserts an absent key, as operator[] does.
at_or_insert(m, key) == IndexOp(m, key)

\* at(key) on table m: a lookup; the value it returns is at(maps[m], heap, key)
At(m, key) ==
    /\ ~ub
    /\ m \in DOMAIN maps
    /\ IF maps[m].bucket_count = 0 THEN Undefined
       ELSE IF find_entry(maps[m], heap, key) = nullptr THEN Throws(out_of_range)
       ELSE UNCHANGED <<maps, heap, abstract>> /\ Returns

\* A call on table m that changes nothing and ends as its result r does: with
\* the out_of_range exception, or returning r.
Query(m, r) ==
    IF r = <<out_of_range>> THEN Throws(out_of_range)
    ELSE UNCHANGED <<maps, heap, abstract>> /\ Returns

\* begin(n) on table m
BeginN(m, n) ==
    /\ ~ub
    /\ m \in DOMAIN maps
    /\ Query(m, begin_n(m, maps[m], n))

\* end(n) on table m
EndN(m, n) ==
    /\ ~ub
    /\ m \in DOMAIN maps
    /\ Query(m, end_n(m, maps[m], n))

\* bucket_size(n) on table m
BucketSize(m, n) ==
    /\ ~ub
    /\ m \in DOMAIN maps
    /\ Query(m, bucket_size(maps[m], n))

\* ~HashMap() of table m
Destroy(m) ==
    /\ ~ub
    /\ m \in DOMAIN maps
    /\ Store([n \in DOMAIN maps \ {m} |-> maps[n]], FreeAll(heap, EntriesOf(maps[m])))
    /\ abstract' = [n \in DOMAIN abstract \ {m} |-> abstract[n]]
    /\ Returns

\* HashMap dst(src): the copy constructor
CopyConstruct(dst, src) ==
    /\ ~ub
    /\ dst \notin DOMAIN maps
    /\ src \in DOMAIN maps
    /\ LET r == copy_construct(maps[src], heap)
       IN  Store(maps @@ (dst :> r.t), r.h)
    /\ abstract' = abstract @@ (dst :> abstract[src])
    /\ Returns

\* HashMap dst(std::move(src)): the move constructor
MoveConstruct(dst, src) ==
    /\ ~ub
    /\ dst \notin DOMAIN maps
    /\ src \in DOMAIN maps
    /\ LET r == move_construct(maps[src])
       IN  Store([maps EXCEPT ![src] = r.other] @@ (dst :> r.t), heap)
    /\ abstract' = [abstract EXCEPT ![src] = EmptyAbstract] @@ (dst :> abstract[src])
    /\ Returns

\* dst = src: copy assignment
CopyAssign(dst, src) ==
    /\ ~ub
    /\ dst \in DOMAIN maps
    /\ src \in DOMAIN maps
    /\ IF dst = src THEN UNCHANGED <<maps, heap, abstract>>
       ELSE LET r == copy_assign(maps[dst], maps[src], heap)
            IN  /\ Store([maps EXCEPT ![dst] = r.t], r.h)
                /\ abstract' = [abstract EXCEPT ![dst] = abstract[src]]
    /\ Returns

\* dst = std::move(src): move assignment
MoveAssign(dst, src) ==
    /\ ~ub
    /\ dst \in DOMAIN maps
    /\ src \in DOMAIN maps
    /\ IF dst = src THEN UNCHANGED <<maps, heap, abstract>>
       ELSE /\ LET r == move_assign(maps[dst], maps[src], heap)
               IN  Store([maps EXCEPT ![dst] = r.t, ![src] = r.other], r.h)
            /\ abstract' = [abstract EXCEPT ![dst] = abstract[src], ![src] = EmptyAbstract]
    /\ Returns

\* The iterators erase(Iterator) is called with on table m: of table m at
\* every bucket index up to bucket_count and every position up to the size of
\* that bucket, and one of the other table.
IteratorArgs(m) ==
    {Iterator(pos[1], pos[2], pos[3]) :
        pos \in {p \in TableIds \X (0..maps[m].bucket_count) \X (0..MaxKey) :
                    /\ p[3] <= IF p[2] < maps[m].bucket_count
                               THEN Len(maps[m].buckets[p[2] + 1]) ELSE 0
                    /\ p[1] # m => p[2] = 0 /\ p[3] = 0}}

\* insert, operator[], erase and clear on table m.
EntryOp(m, keys, values) ==
    \/ \E key \in keys, value \in values : Insert(m, key, value)
    \/ \E key \in keys : IndexOp(m, key)
    \/ \E key \in keys : EraseKey(m, key)
    \/ /\ m \in DOMAIN maps
       /\ \E pos \in IteratorArgs(m) : EraseIt(m, pos)
    \/ Clear(m)

\* ---------------------------------------------------------- specifications

\* One table under every operation of its interface.
Next ==
    \/ EntryOp(1, Keys, Values)
    \/ \E count \in RehashCounts : Rehash(1, count)
    \/ \E ml \in Mlfs : SetMaxLoadFactor(1, ml)

Spec == Init /\ [][Next]_vars

\* One table under every operation of its interface, set_max_load_factor
\* with arguments that are not positive included.
NextAny ==
    \/ Next
    \/ \E ml \in NonPositiveMlfs : SetMaxLoadFactor(1, ml)

SpecAny == Init /\ [][NextAny]_vars

\* Capacities and load factors the constructors are called with, those they
\* reject included.
CtorCaps == Caps \cup {0}

CtorMlfs == Mlfs \cup NonPositiveMlfs

\* No table yet.
InitCtor ==
    /\ maps = <<>>
    /\ heap = [a \in Addrs |-> Free]
    /\ ub = FALSE
    /\ abstract = <<>>
    /\ thrown = NoException

\* Tables constructed by each of the three constructors, and destroyed.
NextCtor ==
    \/ \E dst \in TableIds : DefaultConstruct(dst)
    \/ \E dst \in TableIds, cap \in CtorCaps : ConstructCap(dst, cap)
    \/ \E dst \in TableIds, cap \in CtorCaps, mlf \in CtorMlfs : ConstructOp(dst, cap, mlf)
    \/ \E m \in TableIds : Destroy(m)

SpecCtor == InitCtor /\ [][NextCtor]_vars

\* Two tables, constructed, copied, moved, assigned and destroyed, each under
\* insert, operator[], erase, clear and rehash with fewer arguments.
KeysCM == 1..2

CountsCM == {0, 3}

MlfsCM == {<<3, 4>>, <<3, 1>>}

CapsCM == {1, 2}

InitCM ==
    /\ \E cap \in CapsCM, mlf \in MlfsCM : maps = (1 :> Construct(cap, mlf))
    /\ heap = [a \in Addrs |-> Free]
    /\ ub = FALSE
    /\ abstract = (1 :> EmptyAbstract)
    /\ thrown = NoException

NextCM ==
    \/ \E m \in TableIds : EntryOp(m, KeysCM, Values)
    \/ \E m \in TableIds, count \in CountsCM : Rehash(m, count)
    \/ \E m \in TableIds, cap \in CapsCM, mlf \in MlfsCM : ConstructOp(m, cap, mlf)
    \/ \E m \in TableIds : Destroy(m)
    \/ \E dst \in TableIds, src \in TableIds : CopyConstruct(dst, src)
    \/ \E dst \in TableIds, src \in TableIds : MoveConstruct(dst, src)
    \/ \E dst \in TableIds, src \in TableIds : CopyAssign(dst, src)
    \/ \E dst \in TableIds, src \in TableIds : MoveAssign(dst, src)

SpecCM == InitCM /\ [][NextCM]_vars

\* One table under the operations that go by key, clear, rehash and
\* set_max_load_factor: the tables erase(pos) reaches, erase(key) reaches
\* as well.
NextKeyed ==
    \/ \E key \in Keys, value \in Values : Insert(1, key, value)
    \/ \E key \in Keys : IndexOp(1, key)
    \/ \E key \in Keys : EraseKey(1, key)
    \/ Clear(1)
    \/ \E count \in RehashCounts : Rehash(1, count)
    \/ \E ml \in Mlfs : SetMaxLoadFactor(1, ml)

SpecKeyed == Init /\ [][NextKeyed]_vars

\* One table under the operations that go by key, at among them, clear,
\* rehash and set_max_load_factor.
NextAt ==
    \/ NextKeyed
    \/ \E key \in Keys : At(1, key)

SpecAt == Init /\ [][NextAt]_vars

\* One table under every operation of its interface, every value stored
\* being V{}: the positions of the entries, which the iterators go by, do not
\* depend on the values.
NextCursor ==
    \/ EntryOp(1, Keys, {0})
    \/ \E count \in RehashCounts : Rehash(1, count)
    \/ \E ml \in Mlfs : SetMaxLoadFactor(1, ml)

SpecCursor == Init /\ [][NextCursor]_vars

\* Bucket indexes begin(n), end(n) and bucket_size(n) are called with.
BucketIndexes == 0..MaxBuckets

\* Two tables, moved and destroyed, each under insert (of the value V{}),
\* erase and rehash, and the bucket interface called on each.
NextBucket ==
    \/ \E m \in TableIds, key \in KeysCM : Insert(m, key, 0)
    \/ \E m \in TableIds, key \in KeysCM : EraseKey(m, key)
    \/ \E m \in TableIds, count \in CountsCM : Rehash(m, count)
    \/ \E dst \in TableIds, src \in TableIds : MoveConstruct(dst, src)
    \/ \E dst \in TableIds, src \in TableIds : MoveAssign(dst, src)
    \/ \E m \in TableIds : Destroy(m)
    \/ \E m \in TableIds, n \in BucketIndexes : BeginN(m, n)
    \/ \E m \in TableIds, n \in BucketIndexes : EndN(m, n)
    \/ \E m \in TableIds, n \in BucketIndexes : BucketSize(m, n)

SpecBucket == InitCM /\ [][NextBucket]_vars

\* ------------------------------------------------------------ observations

\* The (key, value) pairs a full traversal of the table collects.
Pairs(t, h) == {<<h[a].key, h[a].value>> : a \in EntriesOf(t)}

\* The number of positions a full traversal visits.
Visited(t) == Len(Flatten(t.buckets))

\* The keys the abstract map of table m holds.
AbstractKeys(m) == {p[1] : p \in abstract[m]}

\* The least q with q * mlf >= n: ceil(n / mlf), for mlf > 0.
CeilOver(n, mlf) == CHOOSE q \in 0..(n * mlf[2]) : /\ q * mlf[1] >= n * mlf[2]
                                                   /\ (q - 1) * mlf[1] < n * mlf[2]

\* entry_count / bucket_count <= max_load_factor; no quotient exists, and
\* nothing is bounded, when bucket_count is 0.
LoadFactorBounded(t) ==
    /\ t.bucket_count > 0
    /\ t.entry_count * t.max_load_factor[2] <= t.max_load_factor[1] * t.bucket_count

\* The tables on which hash_func is defined.
Hashable == {m \in DOMAIN maps : maps[m].bucket_count > 0}

\* ------------------------------------------------------------------ claims

\* C1: after any sequence of insert, operator[], erase(key), erase(cursor)
\* and clear on a freshly constructed table, size() is the number of keys the
\* abstract map driven by the same calls holds.
C1_SizeIsAbstractCount ==
    \A m \in DOMAIN maps : size(maps[m]) = Cardinality(AbstractKeys(m))

\* C1 witness: two keys are held after a third was inserted and erased
\* (three cells of the heap were used, two entries are left).
C1_Witness ==
    /\ size(maps[1]) = 2
    /\ Cardinality(AbstractKeys(1)) = 2
    /\ Visited(maps[1]) = 2

\* C2: after insert(k, v), at(k) returns v, with or without growth; when k
\* was present, entry_count, bucket_count and the value of every other key
\* are unchanged.  (Tables with no bucket have no insert: hash_func divides
\* by bucket_count.)
C2_InsertThenAt ==
    \A m \in Hashable : \A k \in Keys, v \in Values :
        LET t == maps[m]
            r == insert(t, heap, k, v)
        IN  /\ at(r.t, r.h, k) = <<"value", v>>
            /\ contains(t, heap, k) =>
                  /\ r.t.entry_count = t.entry_count
                  /\ r.t.bucket_count = t.bucket_count
                  /\ \A k2 \in Keys \ {k} : at(r.t, r.h, k2) = at(t, heap, k2)

\* C2 witness: a table holding a key with value 0 and another key, where
\* inserting a third key grows the table.
C2_Witness ==
    \E k \in Keys, k2 \in Keys, k3 \in Keys :
        /\ k # k2 /\ k3 \notin {k, k2}
        /\ maps[1].bucket_count > 0
        /\ at(maps[1], heap, k) = <<"value", 0>>
        /\ contains(maps[1], heap, k2)
        /\ ~contains(maps[1], heap, k3)
        /\ insert(maps[1], heap, k3, 1).t.bucket_count # maps[1].bucket_count

\* C3: erase(k) of an absent key returns 0 and changes nothing; erase(k) of a
\* present key returns 1, after which k is absent, entry_count is one less,
\* bucket_count is unchanged and every other key has its previous value.
C3_EraseKey ==
    \A m \in Hashable : \A k \in Keys :
        LET t == maps[m]
            r == erase_key(t, heap, k)
        IN  IF ~contains(t, heap, k)
            THEN r.ret = <<"size", 0>> /\ r.t = t /\ r.h = heap
            ELSE /\ r.ret = <<"size", 1>>
                 /\ ~contains(r.t, r.h, k)
                 /\ r.t.entry_count = t.entry_count - 1
                 /\ r.t.bucket_count = t.bucket_count
                 /\ r.t.max_load_factor = t.max_load_factor
                 /\ \A k2 \in Keys \ {k} : at(r.t, r.h, k2) = at(t, heap, k2)

\* C3 witness: a bucket holding three keys, the first of which erase(k)
\* removes, and a table from which a key is absent.
C3_Witness ==
    /\ maps[1].bucket_count = 1
    /\ Len(maps[1].buckets[1]) = 3
    /\ erase_key(maps[1], heap, heap[maps[1].buckets[1][1]].key).ret = <<"size", 1>>

\* C4: entry_count / bucket_count <= max_load_factor in every state reached
\* from a constructor by insert, operator[], erase, clear, rehash and
\* set_max_load_factor with a positive argument.
C4_LoadFactorBounded ==
    \A m \in DOMAIN maps : LoadFactorBounded(maps[m])

\* C5: no two entries of a table have equal keys.
C5_KeysUnique ==
    \A m \in DOMAIN maps :
        LET es == Flatten(maps[m].buckets)
        IN  \A i, j \in 1..Len(es) : i # j => heap[es[i]].key # heap[es[j]].key

\* C5 witness: two tables, one a copy or a move target of the other, both
\* holding two keys.
C5_Witness ==
    /\ DOMAIN maps = {1, 2}
    /\ Visited(maps[1]) = 2
    /\ Visited(maps[2]) = 2

\* C6: every entry of bucket i has a key with hash(key) mod bucket_count = i.
C6_BucketPlacement ==
    \A m \in DOMAIN maps : \A i \in 1..Len(maps[m].buckets) :
        \A j \in 1..Len(maps[m].buckets[i]) :
            Hash(heap[maps[m].buckets[i][j]].key) % maps[m].bucket_count = i - 1

\* C6 witness: a table of three buckets (reached only by rehash) holding two
\* keys, beside a second table holding a key.
C6_Witness ==
    /\ DOMAIN maps = {1, 2}
    /\ maps[2].bucket_count = 3
    /\ Visited(maps[2]) = 2
    /\ Visited(maps[1]) >= 1

\* C7: entry_count is the sum of the sizes of the buckets, and the bucket
\* array has bucket_count buckets, in every table.
C7_CountsAgree ==
    \A m \in DOMAIN maps :
        /\ maps[m].entry_count = Visited(maps[m])
        /\ Len(maps[m].buckets) = maps[m].bucket_count

\* C7 witness: a moved-from table beside the table that took its two entries.
C7_Witness ==
    /\ DOMAIN maps = {1, 2}
    /\ maps[1].bucket_count = 0
    /\ maps[1].buckets = <<>>
    /\ maps[2].entry_count = 2

\* C8: rehash(count), and the growth inside insert, operator[] and
\* set_max_load_factor, keep the pairs a traversal collects (but for the pair
\* an insert adds); rehash keeps entry_count.
C8_RehashRoundTrip ==
    \A m \in DOMAIN maps :
        LET t == maps[m]
        IN  /\ \A count \in RehashCounts :
                  LET t2 == rehash(t, heap, count)
                  IN  /\ Pairs(t2, heap) = Pairs(t, heap)
                      /\ Visited(t2) = Visited(t)
                      /\ t2.entry_count = t.entry_count
            /\ \A ml \in Mlfs :
                  LET t2 == set_max_load_factor(t, heap, ml)
                  IN  /\ Pairs(t2, heap) = Pairs(t, heap)
                      /\ Visited(t2) = Visited(t)
            /\ m \in Hashable =>
                  \A k \in Keys : ~contains(t, heap, k) =>
                      /\ \A v \in Values :
                            LET r == insert(t, heap, k, v)
                            IN  /\ Pairs(r.t, r.h) = Pairs(t, heap) \cup {<<k, v>>}
                                /\ Visited(r.t) = Visited(t) + 1
                      /\ LET r == index(t, heap, k)
                         IN  /\ Pairs(r.t, r.h) = Pairs(t, heap) \cup {<<k, 0>>}
                             /\ Visited(r.t) = Visited(t) + 1

\* C8 witness: a table of two buckets holding a key in the second, which an
\* insert grows and whose entry rehash(4) moves to the fourth bucket.
C8_Witness ==
    /\ maps[1].bucket_count = 2
    /\ Visited(maps[1]) = 1
    /\ maps[1].buckets[2] # <<>>
    /\ \E k \in Keys : /\ ~contains(maps[1], heap, k)
                       /\ insert(maps[1], heap, k, 1).t.bucket_count > 2
    /\ rehash(maps[1], heap, 4).buckets[4] # <<>>

\* C9: after rehash(count) the bucket count is the larger of count and
\* ceil(entry_count / max_load_factor); when that is the current bucket count
\* the table is untouched.
C9_RehashBucketCount ==
    \A m \in DOMAIN maps : \A count \in RehashCounts :
        LET t      == maps[m]
            t2     == rehash(t, heap, count)
            needed == CeilOver(t.entry_count, t.max_load_factor)
        IN  /\ t2.bucket_count = Max(count, needed)
            /\ t2.bucket_count >= needed
            /\ Max(count, needed) = t.bucket_count => t2 = t

\* C9 witness: a table with entries whose load-factor floor exceeds 2, so
\* that rehash(2) is overridden, and with another bucket count than the floor.
C9_Witness ==
    /\ CeilOver(maps[1].entry_count, maps[1].max_load_factor) > 2
    /\ maps[1].bucket_count # CeilOver(maps[1].entry_count, maps[1].max_load_factor)
    /\ rehash(maps[1], heap, 2).bucket_count > 2

\* Inserting the absent key k in table t makes the load factor exceed the
\* maximum.
Overloads(t) ==
    (t.entry_count + 1) * t.max_load_factor[2] > t.max_load_factor[1] * t.bucket_count

\* C10 as claimed: when inserting a new key makes the load factor exceed the
\* maximum, bucket_count is exactly twice what it was.
C10_ExactlyDoubled ==
    \A m \in Hashable : \A k \in Keys :
        LET t == maps[m]
        IN  (~contains(t, heap, k) /\ Overloads(t)) =>
                /\ insert(t, heap, k, 1).t.bucket_count = 2 * t.bucket_count
                /\ index(t, heap, k).t.bucket_count = 2 * t.bucket_count

\* C10 as amended: when inserting a new key makes the load factor exceed the
\* maximum, bucket_count becomes the larger of twice what it was and
\* ceil(entry_count / max_load_factor), entry_count counting the new entry;
\* that is at least, and not always exactly, twice what it was.
C10_DoubledOrFloor ==
    \A m \in Hashable : \A k \in Keys :
        LET t      == maps[m]
            needed == CeilOver(t.entry_count + 1, t.max_load_factor)
        IN  (~contains(t, heap, k) /\ Overloads(t)) =>
                /\ insert(t, heap, k, 1).t.bucket_count = Max(2 * t.bucket_count, needed)
                /\ index(t, heap, k).t.bucket_count = Max(2 * t.bucket_count, needed)
                /\ insert(t, heap, k, 1).t.bucket_count >= 2 * t.bucket_count

\* C10 witness: a table that an insert grows to exactly twice its buckets,
\* and holds an entry already.
C10_Witness ==
    /\ maps[1].bucket_count > 0
    /\ maps[1].entry_count >= 1
    /\ \E k \in Keys : /\ ~contains(maps[1], heap, k)
                       /\ Overloads(maps[1])
                       /\ insert(maps[1], heap, k, 1).t.bucket_count = 2 * maps[1].bucket_count

\* C11: inserting an absent key leaves bucket_count as it is when the load
\* factor, counting the new entry, is at most max_load_factor (equal
\* included) and at least doubles it otherwise; afterwards the key has the
\* inserted value and every key present before has its value.
C11_StrictGrowthTrigger ==
    \A m \in Hashable : \A k \in Keys, v \in Values :
        LET t == maps[m]
            r == insert(t, heap, k, v)
        IN  ~contains(t, heap, k) =>
                /\ ~Overloads(t) => r.t.bucket_count = t.bucket_count
                /\ Overloads(t) => r.t.bucket_count >= 2 * t.bucket_count
                /\ at(r.t, r.h, k) = <<"value", v>>
                /\ \A k2 \in Keys :
                      contains(t, heap, k2) => at(r.t, r.h, k2) = at(t, heap, k2)

\* C11 witness: capacity 4 and max_load_factor 0.75 with three entries, the
\* third of which made the load factor equal to the maximum without growth;
\* the fourth insert yields 8 buckets holding the four keys.
C11_Witness ==
    /\ maps[1].bucket_count = 4
    /\ maps[1].max_load_factor = <<3, 4>>
    /\ maps[1].entry_count = 3
    /\ \E k \in Keys :
          /\ ~contains(maps[1], heap, k)
          /\ LET r == insert(maps[1], heap, k, 1)
             IN  /\ r.t.bucket_count = 8
                 /\ \A k2 \in Keys : contains(r.t, r.h, k2)

\* C12: set_max_load_factor(v), for every v, stores v; the buckets are
\* unchanged when entry_count / bucket_count <= v, and there are at least
\* twice as many otherwise; on return entry_count / bucket_count <= v and the
\* pairs are the same.
C12_SetMaxLoadFactor ==
    \A m \in Hashable : \A v \in Mlfs \cup NonPositiveMlfs :
        LET t == maps[m]
            r == set_max_load_factor(t, heap, v)
        IN  ~grow_undefined([t EXCEPT !.max_load_factor = v]) =>
                /\ r.max_load_factor = v
                /\ IF t.entry_count * v[2] <= v[1] * t.bucket_count
                   THEN r.buckets = t.buckets
                   ELSE r.bucket_count >= 2 * t.bucket_count
                /\ r.entry_count * v[2] <= v[1] * r.bucket_count
                /\ Pairs(r, heap) = Pairs(t, heap)

\* C12 for positive arguments only.
C12_PositiveArgument ==
    \A m \in Hashable : \A v \in Mlfs :
        LET t == maps[m]
            r == set_max_load_factor(t, heap, v)
        IN  /\ r.max_load_factor = v
            /\ IF t.entry_count * v[2] <= v[1] * t.bucket_count
               THEN r.buckets = t.buckets
               ELSE r.bucket_count >= 2 * t.bucket_count
            /\ r.entry_count * v[2] <= v[1] * r.bucket_count
            /\ Pairs(r, heap) = Pairs(t, heap)

\* C13: max_load_factor is strictly positive in every state, whatever
\* set_max_load_factor was called with.
C13_MaxLoadFactorPositive ==
    \A m \in DOMAIN maps : maps[m].max_load_factor[1] > 0


\* Table dst is an empty table of cap buckets with max_load_factor mlf.
IsEmptyTable(dst, cap, mlf) ==
    /\ dst \in DOMAIN maps
    /\ maps[dst].bucket_count = cap
    /\ Len(maps[dst].buckets) = cap
    /\ \A i \in 1..cap : maps[dst].buckets[i] = <<>>
    /\ maps[dst].entry_count = 0
    /\ maps[dst].max_load_factor = mlf

\* The call for table dst threw invalid_argument and there is no table dst,
\* nor any change to another.
NoTable(dst) ==
    /\ thrown' = invalid_argument
    /\ dst \notin DOMAIN maps'
    /\ maps' = maps

\* C14: HashMap() gives an empty table of 32 buckets with max_load_factor
\* 0.75, HashMap(cap) one of cap buckets with 0.75 and HashMap(cap, mlf) one
\* of cap buckets with mlf; with cap = 0, and with mlf <= 0, the constructor
\* throws invalid_argument and no table exists.
C14_Construction ==
    [][\A dst \in TableIds :
          /\ DefaultConstruct(dst) =>
                IsEmptyTable(dst, 32, <<3, 4>>)' /\ thrown' = NoException
          /\ \A cap \in CtorCaps :
                ConstructCap(dst, cap) =>
                    IF cap = 0 THEN NoTable(dst)
                    ELSE IsEmptyTable(dst, cap, <<3, 4>>)' /\ thrown' = NoException
          /\ \A cap \in CtorCaps, mlf \in CtorMlfs :
                ConstructOp(dst, cap, mlf) =>
                    IF cap = 0 \/ mlf[1] <= 0 THEN NoTable(dst)
                    ELSE IsEmptyTable(dst, cap, mlf)' /\ thrown' = NoException]_vars

\* C14 witness: table 1 was constructed by default, and the construction of
\* table 2 that followed threw.
C14_Witness ==
    /\ IsEmptyTable(1, 32, <<3, 4>>)
    /\ 2 \notin DOMAIN maps
    /\ thrown = invalid_argument

\* C15: at(k) throws out_of_range exactly when k is absent, returns the value
\* the abstract map holds for k otherwise, and in both cases leaves the
\* buckets, the entries, entry_count and bucket_count as they were.
C15_AtNeverInserts ==
    [][\A k \in Keys :
          (At(1, k) /\ ~ub') =>
              /\ maps' = maps
              /\ heap' = heap
              /\ IF Holds(abstract[1], k)
                 THEN /\ thrown' = NoException
                      /\ \E v \in Values : /\ <<k, v>> \in abstract[1]
                                            /\ at(maps[1], heap, k) = <<"value", v>>
                 ELSE /\ thrown' = out_of_range
                      /\ at(maps[1], heap, k) = <<"out_of_range">>]_vars

\* C15 witness: at threw for a key absent from a table whose bucket for that
\* key holds another key.
C15_Witness ==
    /\ thrown = out_of_range
    /\ maps[1].bucket_count > 0
    /\ \E k \in Keys : /\ ~contains(maps[1], heap, k)
                       /\ maps[1].buckets[hash_func(maps[1], k) + 1] # <<>>


\* C16: in every state with bucket_count > 0 and for every key k, contains(k)
\* iff count(k) = 1 iff find(k) # end(); count(k) is 0 or 1; and when find(k)
\* is not end(), dereferencing it gives the entry of key k with value at(k).
C16_LookupsAgree ==
    \A m \in Hashable : \A k \in Keys :
        LET t == maps[m]
            f == find(m, t, heap, k)
        IN  /\ contains(t, heap, k) <=> count_of(t, heap, k) = 1
            /\ count_of(t, heap, k) = 1 <=> f # end(m, t)
            /\ count_of(t, heap, k) \in {0, 1}
            /\ f # end(m, t) =>
                  /\ deref(t, f)[1] = "entry"
                  /\ heap[deref(t, f)[2]].key = k
                  /\ at(t, heap, k) = <<"value", heap[deref(t, f)[2]].value>>

\* C16 witness: a key found at the second position of its bucket, and a key
\* that is absent.
C16_Witness ==
    /\ maps[1].bucket_count > 0
    /\ \E k \in Keys : find(1, maps[1], heap, k)[4] = 1 /\ contains(maps[1], heap, k)
    /\ \E k \in Keys : find(1, maps[1], heap, k) = end(1, maps[1])


\* The place (1-based) of the iterator in the traversal order of table t:
\* the entries of the buckets before its bucket, then its position.
FlatPos(t, it) == Len(Flatten(SubSeq(t.buckets, 1, it[3]))) + it[4] + 1

\* The iterators of table m that designate an entry.
Designating(m) == {pos \in IteratorArgs(m) : designates(m, maps[m], pos)}

C18_EraseCursorFrame ==
    \A m \in DOMAIN maps : \A pos \in Designating(m) :
        LET t == maps[m]
            k == heap[t.buckets[pos[3] + 1][pos[4] + 1]].key
            r == erase_it(m, t, heap, pos)
        IN  /\ ~contains(r.t, r.h, k)
            /\ r.t.entry_count = t.entry_count - 1
            /\ r.t.bucket_count = t.bucket_count
            /\ \A k2 \in Keys \ {k} : at(r.t, r.h, k2) = at(t, heap, k2)
            /\ Pairs(r.t, r.h) = Pairs(t, heap) \ {<<k, heap[find_entry(t, heap, k)].value>>}

\* C18 witness: two keys in one bucket; erasing the iterator to the first
\* leaves the second.
C18_Witness ==
    /\ maps[1].entry_count = 2
    /\ \E i \in 1..maps[1].bucket_count :
          /\ Len(maps[1].buckets[i]) = 2
          /\ LET r == erase_it(1, maps[1], heap, Iterator(1, i - 1, 0))
             IN  /\ ~contains(r.t, r.h, heap[maps[1].buckets[i][1]].key)
                 /\ contains(r.t, r.h, heap[maps[1].buckets[i][2]].key)


\* The iterators a loop "for (it = from; it != stop; ++it)" over table t goes
\* through, cut off after fuel of them.
RECURSIVE Walk(_, _, _, _)
Walk(t, from, stop, fuel) ==
    IF from = stop \/ fuel = 0 THEN <<>>
    ELSE <<from>> \o Walk(t, inc(t, from), stop, fuel - 1)

\* C19: in every state with bucket_count > 0, advancing from begin() reaches
\* end() after exactly size() advances; every iterator before that
\* dereferences; the entries visited are the stored entries, each once,
\* bucket by bucket in ascending index and in ascending position within a
\* bucket; begin() = end() on an empty table.
C19_FullTraversal ==
    \A m \in Hashable :
        LET t == maps[m]
            w == Walk(t, begin(m, t), end(m, t), size(t) + 1)
        IN  /\ Len(w) = size(t)
            /\ \A i \in 1..Len(w) : /\ deref(t, w[i])[1] = "entry"
                                     /\ FlatPos(t, w[i]) = i
            /\ [i \in 1..Len(w) |-> deref(t, w[i])[2]] = Flatten(t.buckets)
            /\ \A i, j \in 1..Len(w) :
                  i < j => \/ w[i][3] < w[j][3]
                           \/ w[i][3] = w[j][3] /\ w[i][4] < w[j][4]
            /\ size(t) = 0 => begin(m, t) = end(m, t)

\* C19 witness: a table with an empty bucket between two buckets that hold
\* entries, which operator++ skips.
C19_Witness ==
    /\ maps[1].bucket_count >= 3
    /\ \E i, j, k \in 1..maps[1].bucket_count :
          /\ i < j /\ j < k
          /\ maps[1].buckets[i] # <<>>
          /\ maps[1].buckets[j] = <<>>
          /\ maps[1].buckets[k] # <<>>
          /\ inc(maps[1], Iterator(1, i - 1, Len(maps[1].buckets[i]) - 1))[3] > j - 1

\* C20: for every n < bucket_count, advancing from begin(n) reaches end(n)
\* after exactly bucket_size(n) advances and visits the entries of bucket n
\* and no other; begin(n) = end(n) when bucket n is empty.
C20_BucketTraversal ==
    \A m \in Hashable : \A n \in 0..(maps[m].bucket_count - 1) :
        LET t == maps[m]
            k == bucket_size(t, n)[2]
            w == Walk(t, begin_n(m, t, n), end_n(m, t, n), k + 1)
        IN  /\ Len(w) = k
            /\ [i \in 1..Len(w) |-> deref(t, w[i])] =
                  [i \in 1..k |-> <<"entry", t.buckets[n + 1][i]>>]
            /\ k = 0 => begin_n(m, t, n) = end_n(m, t, n)

\* The call threw out_of_range and changed no table.
ThrewOutOfRange ==
    /\ thrown' = out_of_range
    /\ maps' = maps
    /\ heap' = heap

\* C21: begin(n), end(n) and bucket_size(n) throw out_of_range and change
\* nothing whenever n >= bucket_count, n = bucket_count and every n on a
\* moved-from table included; for n < bucket_count they return.
C21_BucketIndexChecked ==
    [][\A m \in TableIds, n \in BucketIndexes :
          /\ BeginN(m, n) =>
                IF n >= maps[m].bucket_count THEN ThrewOutOfRange
                ELSE thrown' = NoException
          /\ EndN(m, n) =>
                IF n >= maps[m].bucket_count THEN ThrewOutOfRange
                ELSE thrown' = NoException
          /\ BucketSize(m, n) =>
                IF n >= maps[m].bucket_count THEN ThrewOutOfRange
                ELSE thrown' = NoException]_vars

\* C21 witness: a call of the bucket interface threw beside a moved-from
\* table, on which every index is out of range, and a table holding an entry.
C21_Witness ==
    /\ thrown = out_of_range
    /\ DOMAIN maps = {1, 2}
    /\ maps[1].bucket_count = 0
    /\ maps[2].entry_count >= 1
    /\ bucket_size(maps[1], 0) = <<out_of_range>>
    /\ bucket_size(maps[2], maps[2].bucket_count) = <<out_of_range>>
    /\ bucket_size(maps[2], maps[2].bucket_count - 1)[1] = "size"

\* What clear() leaves of table m, t on heap h: r is clear(t, h).
Cleared(m, t, h, r) ==
    /\ Len(r.t.buckets) = Len(t.buckets)
    /\ \A i \in 1..Len(r.t.buckets) : r.t.buckets[i] = <<>>
    /\ r.t.entry_count = 0
    /\ r.t.bucket_count = t.bucket_count
    /\ r.t.max_load_factor = t.max_load_factor
    /\ \A a \in EntriesOf(t) : r.h[a] = Free
    /\ begin(m, r.t) = end(m, r.t)

\* A cleared table with buckets holds no key and takes every insert.
EmptyAndUsable(t, h) ==
    /\ \A k \in Keys : ~contains(t, h, k)
    /\ \A k \in Keys, v \in Values :
          LET i == insert(t, h, k, v)
          IN  /\ at(i.t, i.h, k) = <<"value", v>>
              /\ size(i.t) = 1

\* C22: clear() leaves every bucket empty and entry_count 0 and keeps
\* bucket_count and max_load_factor; afterwards contains(k) returns false for
\* every key, begin() = end(), and the table takes new inserts.  contains and
\* insert return only on a table with buckets.
C22_Clear ==
    \A m \in DOMAIN maps :
        LET r == clear(maps[m], heap)
        IN  /\ Cleared(m, maps[m], heap, r)
            /\ r.t.bucket_count > 0
            /\ EmptyAndUsable(r.t, r.h)

\* C22 for the tables that have buckets.
C22_ClearWithBuckets ==
    \A m \in Hashable :
        LET r == clear(maps[m], heap)
        IN  /\ Cleared(m, maps[m], heap, r)
            /\ EmptyAndUsable(r.t, r.h)

\* The (key, value) pairs of each bucket of table t, bucket by bucket.
BucketPairs(t, h) ==
    [i \in 1..Len(t.buckets) |-> {<<h[a].key, h[a].value>> : a \in Range(t.buckets[i])}]

\* What insert, operator[], erase, clear and rehash on table m can leave the
\* heap as, argument by argument.
HeapsAfter(m) ==
    LET t == maps[m]
    IN  (IF m \in Hashable
         THEN {insert(t, heap, k, v).h : k \in KeysCM, v \in Values}
              \cup {index(t, heap, k).h : k \in KeysCM}
              \cup {erase_key(t, heap, k).h : k \in KeysCM}
         ELSE {})
        \cup {erase_it(m, t, heap, pos).h : pos \in IteratorArgs(m)}
        \cup {clear(t, heap).h}
        \cup {heap}

\* The copy c of table src has the pairs and the bucket_count of src in
\* entries none of the tables of others holds, and src is as it was.
IsCopy(c, src, others) ==
    /\ Pairs(c.t, c.h) = Pairs(maps[src], heap)
    /\ BucketPairs(c.t, c.h) = BucketPairs(maps[src], heap)
    /\ c.t.entry_count = maps[src].entry_count
    /\ c.t.bucket_count = maps[src].bucket_count
    /\ \A n \in others : EntriesOf(c.t) \cap EntriesOf(maps[n]) = {}
    /\ \A a \in EntriesOf(maps[src]) : c.h[a] = heap[a]

\* C23: the copy constructor and copy assignment give the destination the
\* pairs and the bucket_count of the source and entries of its own; no two
\* tables share an entry in any state, and no insert, operator[], erase, clear
\* or rehash on one table changes an entry of another.
C23_CopyIndependence ==
    /\ \A src \in DOMAIN maps :
          /\ IsCopy(copy_construct(maps[src], heap), src, DOMAIN maps)
          /\ \A dst \in DOMAIN maps \ {src} :
                IsCopy(copy_assign(maps[dst], maps[src], heap), src, DOMAIN maps \ {dst})
    /\ \A m \in DOMAIN maps, n \in DOMAIN maps :
          m # n =>
              /\ EntriesOf(maps[m]) \cap EntriesOf(maps[n]) = {}
              /\ \A h \in HeapsAfter(m) : \A a \in EntriesOf(maps[n]) : h[a] = heap[a]

\* C23 witness: two tables with the same two pairs in buckets of the same
\* index, each in entries of its own, one of which an erase on table 2 frees.
C23_Witness ==
    /\ DOMAIN maps = {1, 2}
    /\ maps[1].entry_count = 2
    /\ BucketPairs(maps[1], heap) = BucketPairs(maps[2], heap)
    /\ maps[1].bucket_count > 0
    /\ \E k \in KeysCM :
          LET r == erase_key(maps[2], heap, k)
          IN  /\ r.ret = <<"size", 1>>
              /\ Pairs(maps[1], r.h) = Pairs(maps[1], heap)
              /\ Pairs(r.t, r.h) # Pairs(maps[1], heap)

\* The copy c of table src has the max_load_factor of src, and its load
\* factor is within it.
KeepsMaxLoadFactor(c, src) ==
    /\ c.max_load_factor = src.max_load_factor
    /\ c.entry_count * c.max_load_factor[2] <= c.max_load_factor[1] * c.bucket_count

\* C24: a table produced by the copy constructor or by copy assignment has
\* the max_load_factor of its source, and so entry_count / bucket_count <=
\* max_load_factor, whatever max_load_factor the source and the destination
\* had.
C24_CopyKeepsMaxLoadFactor ==
    \A src \in DOMAIN maps :
        /\ KeepsMaxLoadFactor(copy_construct(maps[src], heap).t, maps[src])
        /\ \A dst \in DOMAIN maps \ {src} :
              KeepsMaxLoadFactor(copy_assign(maps[dst], maps[src], heap).t, maps[src])

\* The cells of heap h that hold an entry.
Live(h) == {a \in Addrs : h[a] # Free}

\* Table t has what table src had, bucket by bucket in the same entries, and
\* table other is empty with no bucket.
MovedInto(t, other, src) ==
    /\ t.buckets = src.buckets
    /\ t.entry_count = src.entry_count
    /\ t.bucket_count = src.bucket_count
    /\ t.max_load_factor = src.max_load_factor
    /\ size(other) = 0
    /\ other.bucket_count = 0
    /\ other.buckets = <<>>

\* C25: after the move constructor, and after move assignment from another
\* table, the destination has the pairs (the entries themselves), the
\* bucket_count and the max_load_factor the source had and none of the
\* entries it held before, which are deleted; the source has size() 0,
\* bucket_count 0 and no bucket.
C25_Move ==
    \A src \in DOMAIN maps :
        /\ LET r == move_construct(maps[src])
           IN  /\ MovedInto(r.t, r.other, maps[src])
               /\ Pairs(r.t, heap) = Pairs(maps[src], heap)
        /\ \A dst \in DOMAIN maps \ {src} :
              LET r == move_assign(maps[dst], maps[src], heap)
              IN  /\ MovedInto(r.t, r.other, maps[src])
                  /\ Pairs(r.t, r.h) = Pairs(maps[src], heap)
                  /\ EntriesOf(r.t) \cap EntriesOf(maps[dst]) = {}
                  /\ \A a \in EntriesOf(maps[dst]) : r.h[a] = Free
                  /\ Live(r.h) = Live(heap) \ EntriesOf(maps[dst])

\* C25 witness: table 1, of max_load_factor 3.0, holds two entries in three
\* buckets, and table 2, of max_load_factor 0.75, an entry of its own: table 2
\* = std::move(table 1) frees that entry and leaves table 1 without buckets.
C25_Witness ==
    /\ DOMAIN maps = {1, 2}
    /\ maps[1].bucket_count = 3
    /\ maps[1].max_load_factor = <<3, 1>>
    /\ Visited(maps[1]) = 2
    /\ maps[2].max_load_factor = <<3, 4>>
    /\ Visited(maps[2]) = 1
    /\ LET r == move_assign(maps[2], maps[1], heap)
       IN  /\ Cardinality(Live(r.h)) = 2
           /\ r.t.max_load_factor = <<3, 1>>
           /\ r.other.bucket_count = 0

\* C26: operator[] of a present key returns a reference to the stored value
\* and changes nothing; of an absent key it adds the one entry (k, V{}),
\* increments entry_count, grows the table as insert does, and returns a
\* reference to the value at(k) returns afterwards, also when the table grew.
C26_IndexOrDefault ==
    \A m \in Hashable : \A k \in Keys :
        LET t == maps[m]
            r == index(t, heap, k)
            ins == insert(t, heap, k, 0)
        IN  /\ r.ret[1] = "ref"
            /\ r.ret[2] \in EntriesOf(r.t)
            /\ find_entry(r.t, r.h, k) = r.ret[2]
            /\ r.h[r.ret[2]].key = k
            /\ at(r.t, r.h, k) = <<"value", r.h[r.ret[2]].value>>
            /\ IF contains(t, heap, k)
               THEN /\ r.t = t
                    /\ r.h = heap
                    /\ at(t, heap, k) = <<"value", heap[r.ret[2]].value>>
               ELSE /\ Pairs(r.t, r.h) = Pairs(t, heap) \cup {<<k, 0>>}
                    /\ Visited(r.t) = Visited(t) + 1
                    /\ r.t.entry_count = t.entry_count + 1
                    /\ r.t = ins.t
                    /\ r.h = ins.h
                    /\ r.t.bucket_count =
                          IF Overloads(t)
                          THEN Max(2 * t.bucket_count,
                                   CeilOver(t.entry_count + 1, t.max_load_factor))
                          ELSE t.bucket_count
                    /\ r.h[r.ret[2]].value = 0

\* C26 witness: a table holding a key with value 1, which operator[] returns,
\* and lacking a key whose operator[] grows the table and moves the new entry
\* to a bucket of another index.
C26_Witness ==
    /\ maps[1].bucket_count > 0
    /\ \E k \in Keys : /\ at(maps[1], heap, k) = <<"value", 1>>
                       /\ heap[index(maps[1], heap, k).ret[2]].value = 1
    /\ \E k \in Keys :
          /\ ~contains(maps[1], heap, k)
          /\ LET r == index(maps[1], heap, k)
             IN  /\ r.t.bucket_count > maps[1].bucket_count
                 /\ hash_func(r.t, k) # hash_func(maps[1], k)
                 /\ at(r.t, r.h, k) = <<"value", 0>>

\* Buckets new are buckets old with entry i (1-based) of bucket n (1-based)
\* removed by swap-with-last.
SwappedOut(old, new, n, i) ==
    LET b == old[n]
        s == Len(b)
    IN  /\ Len(new) = Len(old)
        /\ Len(new[n]) = s - 1
        /\ \A j \in 1..(s - 1) :
              new[n][j] = IF j = i THEN b[s] ELSE b[j]
        /\ \A n2 \in 1..Len(old) : n2 # n => new[n2] = old[n2]

\* C27: when erase(key) or erase(pos) removes the entry at position i of a
\* bucket of size s, that bucket has size s - 1 afterwards, the entry that
\* was last is at position i unless the removed one was last, every other
\* position below s - 1 holds the entry it held, and no other bucket is
\* modified.
C27_SwapWithLast ==
    /\ \A m \in Hashable : \A k \in Keys :
          LET t == maps[m]
              n == hash_func(t, k) + 1
              i == PosFrom(t.buckets[n], heap, k, 1)
          IN  i # 0 => SwappedOut(t.buckets, erase_key(t, heap, k).t.buckets, n, i)
    /\ \A m \in DOMAIN maps : \A pos \in Designating(m) :
          SwappedOut(maps[m].buckets, erase_it(m, maps[m], heap, pos).t.buckets,
                     pos[3] + 1, pos[4] + 1)

\* C27 witness: a bucket of three entries; erase(key) of the first leaves the
\* third and the second, in this order, and erase(pos) of the second leaves
\* the first and the third.
C27_Witness ==
    /\ maps[1].bucket_count = 1
    /\ Len(maps[1].buckets[1]) = 3
    /\ LET b == maps[1].buckets[1]
       IN  /\ erase_key(maps[1], heap, heap[b[1]].key).t.buckets[1] = <<b[3], b[2]>>
           /\ erase_it(1, maps[1], heap, Iterator(1, 0, 1)).t.buckets[1] = <<b[1], b[3]>>

\* C28: bucket_count >= 1 in every state of a table reached from a
\* constructor by insert, operator[], erase, clear, set_max_load_factor with
\* a positive argument and rehash with any argument (no table is moved from
\* here).
C28_BucketCountPositive ==
    \A m \in DOMAIN maps : maps[m].bucket_count >= 1

\* The loop
\*     for (it = begin(); it != end(); ) { *it; if (...) it = erase(it); else ++it; }
\* on table m from iterator it, the i-th step erasing iff choices[i]: whether
\* it ended (it met end() with every *it returning, within Len(choices)
\* steps), the entries dereferenced in order, the entries passed with ++, and
\* the table and the heap it leaves.
RECURSIVE EraseLoop(_, _, _, _, _, _, _)
EraseLoop(m, t, h, it, choices, seen, passed) ==
    IF it = end(m, t)
    THEN [ended |-> TRUE, seen |-> seen, passed |-> passed, t |-> t, h |-> h]
    ELSE IF choices = <<>> \/ deref(t, it)[1] # "entry"
    THEN [ended |-> FALSE, seen |-> seen, passed |-> passed, t |-> t, h |-> h]
    ELSE LET e == deref(t, it)[2]
         IN  IF Head(choices)
             THEN LET r == erase_it(m, t, h, it)
                  IN  EraseLoop(m, r.t, r.h, r.ret, Tail(choices), Append(seen, e), passed)
             ELSE EraseLoop(m, t, h, inc(t, it), Tail(choices), Append(seen, e),
                            passed \cup {e})

\* The loop on table m with the choices, and one step to spare.
EraseLoopOn(m, choices) ==
    EraseLoop(m, maps[m], heap, begin(m, maps[m]), Append(choices, TRUE), <<>>, {})

\* C29: the loop that starts at begin() and, until it meets end(), either
\* erases the iterator's entry or advances, ends after as many steps as there
\* were entries, whatever the choices; every entry present at the start is
\* dereferenced exactly once; the entries left are those passed with ++, with
\* their values; and size() is 0 when every step erased.
C29_EraseDuringTraversal ==
    \A m \in DOMAIN maps :
        LET t == maps[m]
            n == Visited(t)
        IN  \A choices \in [1..n -> BOOLEAN] :
                LET l == EraseLoopOn(m, choices)
                IN  /\ l.ended
                    /\ Len(l.seen) = n
                    /\ Range(l.seen) = EntriesOf(t)
                    /\ EntriesOf(l.t) = l.passed
                    /\ l.passed = {l.seen[j] : j \in {j2 \in 1..n : ~choices[j2]}}
                    /\ \A a \in l.passed : l.h[a] = heap[a]
                    /\ \A a \in EntriesOf(t) \ l.passed : l.h[a] = Free
                    /\ size(l.t) = Cardinality(l.passed)
                    /\ (\A j \in 1..n : choices[j]) => size(l.t) = 0

\* C29 witness: two entries in the first bucket and one in the second; the
\* loop that erases the first entry, passes the entry moved into its place and
\* erases the third ends with that one entry, and the loop that erases at
\* every step ends with none.
C29_Witness ==
    /\ maps[1].bucket_count = 2
    /\ Len(maps[1].buckets[1]) = 2
    /\ Len(maps[1].buckets[2]) = 1
    /\ LET l == EraseLoopOn(1, <<TRUE, FALSE, TRUE>>)
       IN  /\ l.ended
           /\ l.seen = <<maps[1].buckets[1][1], maps[1].buckets[1][2], maps[1].buckets[2][1]>>
           /\ EntriesOf(l.t) = {maps[1].buckets[1][2]}
    /\ size(EraseLoopOn(1, <<TRUE, TRUE, TRUE>>).t) = 0

\* The iterator designates an entry of table m, or is at the end position
\* (bucket_count, 0).
ValidCursor(m, t, it) ==
    \/ designates(m, t, it)
    \/ it = Iterator(m, t.bucket_count, 0)

\* C30: the iterators begin(), end(), find(k) and erase(pos) return, and the
\* iterator ++ makes of any such iterator, designate an entry of the table as
\* it is then or are at (bucket_count, 0); ++ leaves end() equal to end().
C30_CursorValidity ==
    \A m \in DOMAIN maps :
        LET t == maps[m]
        IN  /\ ValidCursor(m, t, begin(m, t))
            /\ ValidCursor(m, t, end(m, t))
            /\ end(m, t) = Iterator(m, t.bucket_count, 0)
            /\ m \in Hashable => \A k \in Keys : ValidCursor(m, t, find(m, t, heap, k))
            /\ \A pos \in IteratorArgs(m) :
                  LET r == erase_it(m, t, heap, pos)
                  IN  /\ ValidCursor(m, r.t, r.ret)
                      /\ ValidCursor(m, r.t, inc(r.t, r.ret))
            /\ \A it \in Designating(m) \cup {end(m, t)} : ValidCursor(m, t, inc(t, it))
            /\ inc(t, end(m, t)) = end(m, t)

\* C30 witness: the first bucket is empty and the second holds two entries:
\* begin() is at the second bucket, ++ of the iterator to its last entry is
\* end(), and find of the second entry's key is at position 1.
C30_Witness ==
    /\ maps[1].bucket_count = 2
    /\ maps[1].buckets[1] = <<>>
    /\ Len(maps[1].buckets[2]) = 2
    /\ begin(1, maps[1]) = Iterator(1, 1, 0)
    /\ inc(maps[1], Iterator(1, 1, 1)) = end(1, maps[1])
    /\ find(1, maps[1], heap, heap[maps[1].buckets[2][2]].key) = Iterator(1, 1, 1)
    /\ erase_it(1, maps[1], heap, Iterator(1, 1, 1)).ret = Iterator(1, 2, 0)

\* The iterators that designate no entry of table m: of another table (at
\* any position, one that holds an entry of table m included), at a bucket
\* index >= bucket_count (end() is one), or at a position >= the size of
\* their bucket.
StaleArgs(m) ==
    LET t == maps[m]
    IN  {Iterator(p[1], p[2], p[3]) :
            p \in {q \in TableIds \X (0..(t.bucket_count + 1)) \X (0..(MaxKey + 1)) :
                      \/ q[1] # m
                      \/ q[2] >= t.bucket_count
                      \/ q[3] >= Len(t.buckets[q[2] + 1])}}

\* C31: erase(pos) with an iterator of another table, or with a bucket index
\* >= bucket_count, or with a position >= the size of its bucket, removes
\* nothing, leaves the buckets, the entries, entry_count and bucket_count as
\* they were, and returns end() of the table it is called on.
C31_EraseStaleCursor ==
    \A m \in DOMAIN maps : \A pos \in StaleArgs(m) :
        LET r == erase_it(m, maps[m], heap, pos)
        IN  /\ r.t = maps[m]
            /\ r.h = heap
            /\ r.ret = end(m, maps[m])
            /\ r.ret = Iterator(m, maps[m].bucket_count, 0)

\* C31 witness: table 1 holds an entry at bucket 0, position 0 and another in
\* a later bucket: an iterator of table 2 at (0, 0), the iterator end() and
\* the iterator at position 1 of bucket 0 are all refused.
C31_Witness ==
    /\ maps[1].bucket_count >= 2
    /\ Len(maps[1].buckets[1]) = 1
    /\ Visited(maps[1]) = 2
    /\ {Iterator(2, 0, 0), end(1, maps[1]), Iterator(1, 0, 1)} \subseteq StaleArgs(1)
    /\ erase_it(1, maps[1], heap, Iterator(2, 0, 0)).t = maps[1]
    /\ erase_it(1, maps[1], heap, Iterator(1, 0, 0)).t # maps[1]

\* The iterators of table m at every bucket index up to bucket_count + 1 and
\* every position up to MaxKey + 1, whether or not an entry is there.
AllCursors(m) ==
    {Iterator(m, p[1], p[2]) :
        p \in (0..(maps[m].bucket_count + 1)) \X (0..(MaxKey + 1))}

\* The slot (bucket index, position) of the iterator exists in its table.
SlotExists(ms, it) ==
    /\ it[2] # nullptr
    /\ it[3] < ms[it[2]].bucket_count
    /\ it[4] < Len(ms[it[2]].buckets[it[3] + 1])

\* operator* on the iterator gives the entry stored in the iterator's slot,
\* an entry in use, when the slot exists and the out_of_range exception, and
\* no entry, when it does not.
Checked(ms, h, it) ==
    IF SlotExists(ms, it)
    THEN LET a == ms[it[2]].buckets[it[3] + 1][it[4] + 1]
         IN  /\ operator_star(ms, it) = <<"entry", a>>
             /\ h[a] # Free
    ELSE operator_star(ms, it) = <<out_of_range>>

\* C32: operator* is checked. On Iterator(), on end(), on every end(n), and on
\* every iterator whose bucket index is >= bucket_count or whose position is
\* >= the size of its bucket, it throws out_of_range and returns no entry; on
\* an iterator whose slot exists it returns the entry stored in that slot.
\* That holds as well for every iterator that designated an entry when it is
\* dereferenced after an erase(pos), an erase(key), a clear() or a rehash.
C32_DerefChecked ==
    /\ operator_star(maps, DefaultIterator) = <<out_of_range>>
    /\ \A m \in DOMAIN maps :
          LET t == maps[m]
              after(r) == [maps EXCEPT ![m] = r.t]
          IN  /\ operator_star(maps, end(m, t)) = <<out_of_range>>
              /\ \A n \in 0..(t.bucket_count - 1) :
                    operator_star(maps, end_n(m, t, n)) = <<out_of_range>>
              /\ \A it \in AllCursors(m) :
                    /\ Checked(maps, heap, it)
                    /\ SlotExists(maps, it) =>
                          /\ \A pos \in IteratorArgs(m) :
                                LET r == erase_it(m, t, heap, pos)
                                IN  Checked(after(r), r.h, it)
                          /\ \A key \in Keys :
                                LET r == erase_key(t, heap, key)
                                IN  Checked(after(r), r.h, it)
                          /\ LET r == clear(t, heap)
                             IN  /\ Checked(after(r), r.h, it)
                                 /\ operator_star(after(r), it) = <<out_of_range>>
                          /\ \A count \in RehashCounts :
                                LET t1 == rehash(t, heap, count)
                                IN  Checked([maps EXCEPT ![m] = t1], heap, it)

\* C32 witness: bucket 0 of table 1 holds two entries and bucket 1 holds one.
\* The iterator at (0, 1) gives the second entry of bucket 0; after
\* erase(begin()) its slot is gone and operator* throws, and so it does
\* after rehash(1), where bucket 1 is gone, on the iterator at (1, 0); end(0)
\* is the iterator at (0, 2), where operator* throws before rehash(1) and
\* gives an entry after it.
C32_Witness ==
    /\ maps[1].bucket_count >= 2
    /\ Len(maps[1].buckets[1]) = 2
    /\ Len(maps[1].buckets[2]) = 1
    /\ operator_star(maps, Iterator(1, 0, 1)) = <<"entry", maps[1].buckets[1][2]>>
    /\ end_n(1, maps[1], 0) = Iterator(1, 0, 2)
    /\ operator_star(maps, Iterator(1, 0, 2)) = <<out_of_range>>
    /\ LET r == erase_it(1, maps[1], heap, begin(1, maps[1]))
       IN  operator_star([maps EXCEPT ![1] = r.t], Iterator(1, 0, 1)) = <<out_of_range>>
    /\ LET t1 == rehash(maps[1], heap, 1)
       IN  /\ t1.bucket_count = 1
           /\ operator_star([maps EXCEPT ![1] = t1], Iterator(1, 1, 0)) = <<out_of_range>>
           /\ operator_star([maps EXCEPT ![1] = t1], Iterator(1, 0, 2))[1] = "entry"

\* The table r.t and the entries r.h are the table t and the entries h with
\* one entry more, Entry(key, value), at the last position of bucket n, and
\* nothing else changed: every bucket but n is what it was, bucket n starts
\* with what it held, every entry of the table before is at its bucket index
\* and position with its key and value, and bucket_count and max_load_factor
\* are what they were.
AppendedOnly(t, h, r, n, key, value) ==
    LET old == t.buckets[n + 1]
        new == r.t.buckets[n + 1]
        a   == new[Len(new)]
    IN  /\ r.t.bucket_count = t.bucket_count
        /\ r.t.max_load_factor = t.max_load_factor
        /\ r.t.entry_count = t.entry_count + 1
        /\ Len(r.t.buckets) = Len(t.buckets)
        /\ \A b \in 0..(t.bucket_count - 1) :
              \A e \in 0..(Len(t.buckets[b + 1]) - 1) :
                  /\ e < Len(r.t.buckets[b + 1])
                  /\ r.t.buckets[b + 1][e + 1] = t.buckets[b + 1][e + 1]
                  /\ r.h[t.buckets[b + 1][e + 1]] = h[t.buckets[b + 1][e + 1]]
        /\ \A b \in 0..(t.bucket_count - 1) :
              Len(r.t.buckets[b + 1]) = Len(t.buckets[b + 1]) + (IF b = n THEN 1 ELSE 0)
        /\ h[a] = Free
        /\ r.h[a] = Entry(key, value)
        /\ \A x \in Addrs \ {a} : r.h[x] = h[x]

\* C33: insert(key, value) and operator[](key) of a key the table does not
\* hold, when the load factor with the new entry does not exceed
\* max_load_factor, put the new entry at the last position of the key's
\* bucket and change nothing else: every bucket index and position that
\* held an entry holds the same entry with the same key and value, and
\* bucket_count is unchanged. operator[] returns the new entry, whose value
\* is V{}.
C33_InsertWithoutGrowth ==
    \A m \in DOMAIN maps :
        LET t == maps[m]
        IN  t.bucket_count > 0 =>
              \A key \in Keys :
                  (/\ \A a \in Range(Flatten(t.buckets)) : heap[a].key # key
                   /\ (t.entry_count + 1) * t.max_load_factor[2]
                          <= t.max_load_factor[1] * t.bucket_count)
                  => /\ \A value \in Values :
                           AppendedOnly(t, heap, insert(t, heap, key, value),
                                        Hash(key) % t.bucket_count, key, value)
                     /\ LET r == index(t, heap, key)
                            n == Hash(key) % t.bucket_count
                        IN  /\ AppendedOnly(t, heap, r, n, key, 0)
                            /\ r.ret = <<"ref", r.t.buckets[n + 1][Len(r.t.buckets[n + 1])]>>

\* C33 witness: table 1 has two buckets, key 1 with value 1 alone in bucket
\* 1 and key 2 in bucket 0; insert(3, 1) does not grow the table and leaves
\* bucket 1 holding the entry of key 1 and then the entry of key 3.
C33_Witness ==
    /\ maps[1].bucket_count = 2
    /\ Len(maps[1].buckets[1]) = 1
    /\ Len(maps[1].buckets[2]) = 1
    /\ heap[maps[1].buckets[2][1]] = Entry(1, 1)
    /\ LET r == insert(maps[1], heap, 3, 1)
       IN  /\ r.t.bucket_count = 2
           /\ Len(r.t.buckets[2]) = 2
           /\ r.t.buckets[2][1] = maps[1].buckets[2][1]
           /\ r.h[r.t.buckets[2][1]] = Entry(1, 1)
           /\ r.h[r.t.buckets[2][2]] = Entry(3, 1)
           /\ r.t.buckets[1] = maps[1].buckets[1]

=============================================================================
